---- MODULE Spec2Model ----
(***************************************************************************)
(* State-machine model of src/BOT.py (PDFBot): the image-to-PDF assembler  *)
(* images_to_pdf, the size-targeting compressor                            *)
(* compress_pdf_to_target_size, and the two message handlers that call     *)
(* them.  In Spec one request is in flight; a request is either a direct   *)
(* call of one of the two core functions with inputs drawn from bounded    *)
(* sets, or a photo / PDF message handled by handle_photo / handle_pdf.    *)
(*                                                                         *)
(* A byte buffer holding a PDF is a record                                 *)
(*   [gen, len, valid, pages]                                              *)
(* gen   : 0 for a buffer that entered the compressor from outside, k for  *)
(*         the buffer serialized by rebuild pass k                         *)
(* len   : its length in bytes                                             *)
(* valid : whether fitz.open accepts it                                    *)
(* pages : its pages, each [geom, img, mode, q, scale, depth]              *)
(* The outcome of a library call (the serialized length of a rebuilt       *)
(* document, whether a call raises) is chosen nondeterministically.        *)
(*                                                                         *)
(* Spec runs one request at a time, page by page.  SpecConc runs several   *)
(* invocations of the compressor together, pass by pass.                   *)
(***************************************************************************)
EXTENDS Integers, Sequences, FiniteSets, TLC

VARIABLES
    caller,           \* who issued the request in flight
    hpc,              \* position inside the handler / direct caller
    pc,               \* position inside compress_pdf_to_target_size
    orig,             \* the bytes the caller passed to the compressor
    pdf_bytes,        \* local pdf_bytes (reassigned at line 212)
    target_kb,        \* parameter target_kb
    current_size,     \* local current_size, a fraction <<bytes, 1024>>
    quality,          \* local quality
    doc,              \* local doc: the buffer the open handle reads, or NoDoc
    new_doc,          \* local new_doc: the pages inserted so far
    page_num,         \* loop index of the page loop
    passes,           \* number of rebuild passes started in this invocation
    cands,            \* the candidates serialized so far, in order
    ladder,           \* the quality value each started pass ran with
    raised,           \* TRUE once the except clause has been entered
    open_handles,     \* document handles opened and not closed
    opened_total,     \* number of fitz.open calls made in this invocation
    result,           \* the value returned by the compressor, or NoBytes
    image_bytes_list, \* parameter of images_to_pdf
    images,           \* local images of images_to_pdf
    a_result,         \* the value returned by images_to_pdf, or NoBytes
    apc,              \* position inside images_to_pdf
    file_size,        \* document.file_size reported for a PDF message
    downloaded,       \* TRUE once the handler downloaded the file
    status_msg,       \* state of the "Processing" status message
    sent,             \* documents sent with reply_document for this request
    err_replies,      \* number of error replies sent for this request
    c_pc,             \* concurrent invocations: position of each
    c_orig,           \* the buffer each was called with
    c_pdf_bytes,      \* local pdf_bytes of each
    c_size,           \* local current_size of each
    c_quality,        \* local quality of each
    c_doc,            \* local doc of each
    c_passes,         \* passes each has run
    c_outcomes,       \* what the library gave each invocation, pass by pass
    c_result          \* the value each returned

seqVars == <<caller, hpc, pc, orig, pdf_bytes, target_kb, current_size,
             quality, doc, new_doc, page_num, passes, cands, ladder, raised,
             open_handles, opened_total, result, image_bytes_list, images,
             a_result, apc, file_size, downloaded, status_msg, sent,
             err_replies>>

concVars == <<c_pc, c_orig, c_pdf_bytes, c_size, c_quality, c_doc, c_passes,
              c_outcomes, c_result>>

vars == <<seqVars, concVars>>

compressVars == <<pc, orig, pdf_bytes, target_kb, current_size, quality, doc,
                  new_doc, page_num, passes, cands, ladder, raised,
                  open_handles, opened_total, result>>

assembleVars == <<image_bytes_list, images, a_result, apc>>

handlerVars == <<file_size, downloaded, status_msg, sent, err_replies>>

callerVars == <<caller, hpc>>

----------------------------------------------------------------------------
(* Bounds of the model *)

MaxPages == 2        \* pages of an input PDF
MaxImages == 2       \* images handed to images_to_pdf by a direct caller
MaxTargetKB == 2     \* targets a direct caller asks for
MaxReqs == 2         \* invocations of the compressor in flight together
Slack == 2           \* byte lengths are sampled within Slack of a threshold

(* Program constants *)

KB == 1024                       \* divisor at lines 176 and 205
InitialQuality == 80             \* line 185
QualityFloor == 20               \* line 187
QualityStepHalved == 20 \div 2    \* variant: quality -= 10
QualityStep == 20                \* line 209
HandlerTargetKB == 240           \* lines 100 and 133
FileSizeCap == 10 * 1024 * 1024  \* line 124

\* A name not bound to any buffer / document / size yet.
NoBytes == [gen |-> -1, len |-> 0, valid |-> FALSE, pages |-> <<>>]
NoDoc == NoBytes
NoSize == <<0, 1>>

----------------------------------------------------------------------------
(* Values *)

\* Byte lengths within Slack of a threshold b.
Around(b) == {x \in (b - Slack)..(b + Slack) : x >= 0}

Geoms == {<<3, 4>>, <<4, 3>>}          \* page / image width and height

NotEncoded == <<0, 1>>                 \* q of a page no pass has encoded

NotScaled == <<1, 1>>                  \* scale of a page no pass has rasterized

\* Page i of a PDF that comes from outside the compressor.
SourcePage(g, i) ==
    [geom |-> g, img |-> i, mode |-> "src", q |-> NotEncoded,
     scale |-> NotScaled, depth |-> 0]

PageLists == UNION {[1..n -> Geoms] : n \in 0..MaxPages}

\* A PDF buffer of length l whose pages have the geometries gs.
ValidPdf(l, gs) ==
    [gen |-> 0, len |-> l, valid |-> TRUE,
     pages |-> [i \in 1..Len(gs) |-> SourcePage(gs[i], i)]]

\* A buffer of length l that fitz.open rejects.
CorruptPdf(l) == [gen |-> 0, len |-> l, valid |-> FALSE, pages |-> <<>>]

PdfInputs(lens) ==
    {ValidPdf(l, gs) : l \in lens, gs \in PageLists}
        \cup {CorruptPdf(l) : l \in lens}

----------------------------------------------------------------------------
(* compress_pdf_to_target_size: pure parts *)

\* len(pdf_bytes) / 1024: true division, kept as the fraction <<bytes, 1024>>.
SizeKB(len) == <<len, KB>>

\* Variant: the comparison taken as >=.
OverTargetInclusive(size, t) == size[1] >= t * size[2]

\* current_size > target_kb, on the fraction.
OverTarget(size, t) == size[1] > t * size[2]

\* Variant: the loop tests the quality only.
LoopConditionQualityOnly(size, t, q) == q >= QualityFloor

\* The while condition at line 187.
LoopCondition(size, t, q) == OverTarget(size, t) /\ q >= QualityFloor

\* Variant: the quality is stepped after every pass.
NextQualityAlways(q, size, t) == q - QualityStep

\* Lines 208-209: quality after a pass that measured size.
NextQuality(q, size, t) == IF OverTarget(size, t) THEN q - QualityStep ELSE q

\* The second argument of pix.tobytes at line 195: quality / 100 as a fraction.
JpegArg(q) == <<q, 100>>

\* The factor of fitz.Matrix(0.8, 0.8) at line 194, as a fraction.
RasterScale == <<8, 10>>

\* Variant: the new page is given the size of the pixmap, not of the page.
RasterizeAtPixmapSize(p, q) ==
    [geom |-> <<(p.geom[1] * RasterScale[1]) \div RasterScale[2],
                (p.geom[2] * RasterScale[1]) \div RasterScale[2]>>,
     img |-> p.img, mode |-> "RGB", q |-> JpegArg(q), scale |-> RasterScale,
     depth |-> p.depth + 1]

\* Lines 193-199: the page built from page p of the working document: the
\* page rendered at RasterScale, encoded with JpegArg(q) and placed on a new
\* page of the width and height of p.
Rasterize(p, q) ==
    [geom |-> p.geom, img |-> p.img, mode |-> "RGB", q |-> JpegArg(q),
     scale |-> RasterScale, depth |-> p.depth + 1]

\* Line 201-204: the buffer new_doc serializes to, l bytes long, in pass k.
Candidate(k, l, pgs) == [gen |-> k, len |-> l, valid |-> TRUE, pages |-> pgs]

\* Variant: every pass starts again from the caller's buffer.
ReopenOriginal(held, original) == original

\* Line 214: the buffer the working document is re-opened on.
ReopenSource(held, original) == held

\* Variant: the except clause only logs and returns nothing.
ExceptReturnsNothing(held, original) == NoBytes

\* The value the except clause returns (line 223).
ExceptValue(held, original) == held

\* Variant: the normal exit hands back the caller's buffer.
FinalReturnsOriginal(held, original) == original

\* The value the normal exit returns (lines 216-219).
FinalValue(held, original) == held

----------------------------------------------------------------------------
(* compress_pdf_to_target_size: steps *)

\* Entry: the parameters are bound; nothing else has run.
EnterCompress(bytes, t) ==
    /\ pc' = "check"
    /\ orig' = bytes
    /\ pdf_bytes' = bytes
    /\ target_kb' = t
    /\ current_size' = NoSize
    /\ quality' = 0
    /\ doc' = NoDoc
    /\ new_doc' = <<>>
    /\ page_num' = 0
    /\ passes' = 0
    /\ cands' = <<>>
    /\ ladder' = <<>>
    /\ raised' = FALSE
    /\ open_handles' = {}
    /\ opened_total' = 0
    /\ result' = NoBytes

\* Lines 176-179.
CheckSize ==
    /\ UNCHANGED concVars
    /\ UNCHANGED <<callerVars, assembleVars, handlerVars>>
    /\ pc = "check"
    /\ current_size' = SizeKB(pdf_bytes.len)
    /\ IF OverTarget(current_size', target_kb)
          THEN pc' = "open" /\ result' = result
          ELSE pc' = "returned" /\ result' = pdf_bytes
    /\ UNCHANGED <<orig, pdf_bytes, target_kb, quality, doc, new_doc,
                   page_num, passes, cands, ladder, raised, open_handles,
                   opened_total>>

\* Lines 182-185: fitz.open raises on a buffer that is no PDF.
OpenSource ==
    /\ UNCHANGED concVars
    /\ UNCHANGED <<callerVars, assembleVars, handlerVars>>
    /\ pc = "open"
    /\ \/ /\ pdf_bytes.valid
          /\ doc' = pdf_bytes
          /\ open_handles' = open_handles \cup {"doc"}
          /\ opened_total' = opened_total + 1
          /\ quality' = InitialQuality
          /\ pc' = "loop"
       \/ /\ ~pdf_bytes.valid
          /\ pc' = "except"
          /\ UNCHANGED <<doc, open_handles, opened_total, quality>>
    /\ UNCHANGED <<orig, pdf_bytes, target_kb, current_size, new_doc,
                   page_num, passes, cands, ladder, raised, result>>

\* Line 187, and lines 189-190 when the body is entered.
LoopTest ==
    /\ UNCHANGED concVars
    /\ UNCHANGED <<callerVars, assembleVars, handlerVars>>
    /\ pc = "loop"
    /\ IF LoopCondition(current_size, target_kb, quality)
          THEN /\ pc' = "rebuild"
               /\ new_doc' = <<>>
               /\ page_num' = 0
               /\ passes' = passes + 1
               /\ ladder' = Append(ladder, quality)
               /\ open_handles' = open_handles \cup {"new_doc"}
               /\ opened_total' = opened_total + 1
          ELSE /\ pc' = "final"
               /\ UNCHANGED <<new_doc, page_num, passes, ladder, open_handles,
                              opened_total>>
    /\ UNCHANGED <<orig, pdf_bytes, target_kb, current_size, quality, doc,
                   cands, raised, result>>

\* Lines 192-199 for one page: rasterize, encode, insert; any of them may
\* raise.
RebuildPage ==
    /\ UNCHANGED concVars
    /\ UNCHANGED <<callerVars, assembleVars, handlerVars>>
    /\ pc = "rebuild"
    /\ page_num < Len(doc.pages)
    /\ \/ /\ new_doc' = Append(new_doc, Rasterize(doc.pages[page_num + 1], quality))
          /\ page_num' = page_num + 1
          /\ pc' = pc
       \/ /\ pc' = "except"
          /\ UNCHANGED <<new_doc, page_num>>
    /\ UNCHANGED <<orig, pdf_bytes, target_kb, current_size, quality, doc,
                   passes, cands, ladder, raised, open_handles, opened_total,
                   result>>

\* Lines 201-212: save and close new_doc, measure, step the quality, rebind
\* pdf_bytes.  Saving a document without pages raises; saving may also fail
\* otherwise.
SavePass ==
    /\ UNCHANGED concVars
    /\ UNCHANGED <<callerVars, assembleVars, handlerVars>>
    /\ pc = "rebuild"
    /\ page_num = Len(doc.pages)
    /\ \/ /\ Len(new_doc) > 0
          /\ \E l \in Around(target_kb * KB) :
                LET c == Candidate(passes, l, new_doc) IN
                /\ current_size' = SizeKB(c.len)
                /\ quality' = NextQuality(quality, current_size', target_kb)
                /\ pdf_bytes' = c
                /\ cands' = Append(cands, c)
          /\ new_doc' = <<>>
          /\ open_handles' = open_handles \ {"new_doc"}
          /\ pc' = "reopen"
       \/ /\ pc' = "except"
          /\ UNCHANGED <<current_size, quality, pdf_bytes, cands, new_doc,
                         open_handles>>
    /\ UNCHANGED <<orig, target_kb, doc, page_num, passes, ladder, raised,
                   opened_total, result>>

\* Lines 213-214: close the working document and open the candidate in its
\* place; the open may raise.
Reopen ==
    /\ UNCHANGED concVars
    /\ UNCHANGED <<callerVars, assembleVars, handlerVars>>
    /\ pc = "reopen"
    /\ \/ /\ doc' = ReopenSource(pdf_bytes, orig)
          /\ open_handles' = open_handles
          /\ opened_total' = opened_total + 1
          /\ pc' = "loop"
       \/ /\ doc' = NoDoc
          /\ open_handles' = open_handles \ {"doc"}
          /\ opened_total' = opened_total
          /\ pc' = "except"
    /\ UNCHANGED <<orig, pdf_bytes, target_kb, current_size, quality, new_doc,
                   page_num, passes, cands, ladder, raised, result>>

\* Lines 216-219.
Finish ==
    /\ UNCHANGED concVars
    /\ UNCHANGED <<callerVars, assembleVars, handlerVars>>
    /\ pc = "final"
    /\ result' = FinalValue(pdf_bytes, orig)
    /\ doc' = NoDoc
    /\ open_handles' = open_handles \ {"doc"}
    /\ pc' = "returned"
    /\ UNCHANGED <<orig, pdf_bytes, target_kb, current_size, quality, new_doc,
                   page_num, passes, cands, ladder, raised, opened_total>>

\* Lines 221-223.
Except ==
    /\ UNCHANGED concVars
    /\ UNCHANGED <<callerVars, assembleVars, handlerVars>>
    /\ pc = "except"
    /\ raised' = TRUE
    /\ result' = ExceptValue(pdf_bytes, orig)
    /\ pc' = "returned"
    /\ UNCHANGED <<orig, pdf_bytes, target_kb, current_size, quality, doc,
                   new_doc, page_num, passes, cands, ladder, open_handles,
                   opened_total>>

----------------------------------------------------------------------------
(* images_to_pdf *)

Modes == {"RGB", "P", "RGBA"}

\* Image number i of a request: its colour mode, its size in pixels and
\* whether PIL can decode it; converted records a call of img.convert.
ImageBytes(i, m, g, ok) ==
    [id |-> i, mode |-> m, geom |-> g, ok |-> ok, converted |-> FALSE]

ImageLists(n) ==
    {[i \in 1..n |-> ImageBytes(i, f[i][1], f[i][2], f[i][3])] :
        f \in [1..n -> Modes \X Geoms \X BOOLEAN]}

\* Variant: Image.open accepts any bytes.
DecodesAnything(b) == TRUE

\* Line 157: Image.open(BytesIO(img_bytes)) returns an image.
Decodable(b) == b.ok

\* Variant: the mode is left as it is.
NormalizeNothing(img) == img

\* Lines 158-159.
NormalizeMode(img) ==
    IF img.mode # "RGB"
       THEN [img EXCEPT !.mode = "RGB", !.converted = TRUE]
       ELSE img

\* The page PIL writes for an image: the image at its own pixel size.
ImagePage(img) ==
    [geom |-> img.geom, img |-> img.id, mode |-> img.mode, q |-> NotEncoded,
     scale |-> NotScaled, depth |-> 0]

\* Variant: every image is appended after the first.
AppendImagesAll(imgs) == imgs

\* Line 168: the append_images argument.
AppendImages(imgs) == IF Len(imgs) > 1 THEN Tail(imgs) ELSE <<>>

\* Lines 164-169: images[0].save(..., save_all=True, append_images=...)
SavedPages(imgs) ==
    LET rest == AppendImages(imgs) IN
    <<ImagePage(imgs[1])>> \o [i \in 1..Len(rest) |-> ImagePage(rest[i])]

\* Lengths the PDF written for a photo request may have.
AssembledLens == Around(HandlerTargetKB * KB) \cup Around(FileSizeCap)

\* Entry: line 152-155.
EnterAssemble(list) ==
    /\ apc' = "loop"
    /\ image_bytes_list' = list
    /\ images' = <<>>
    /\ a_result' = NoBytes

\* Lines 156-160 for one image: Image.open raises on bytes it cannot decode.
OpenImage ==
    /\ UNCHANGED concVars
    /\ apc = "loop"
    /\ Len(images) < Len(image_bytes_list)
    /\ LET b == image_bytes_list[Len(images) + 1] IN
       IF Decodable(b)
          THEN images' = Append(images, NormalizeMode(b)) /\ apc' = apc
          ELSE images' = images /\ apc' = "raised"
    /\ UNCHANGED <<image_bytes_list, a_result>>
    /\ UNCHANGED <<callerVars, compressVars, handlerVars>>

\* Lines 163-171: with no image nothing is written and the empty buffer is
\* returned.
SaveImages ==
    /\ UNCHANGED concVars
    /\ apc = "loop"
    /\ Len(images) = Len(image_bytes_list)
    /\ IF Len(images) > 0
          THEN \E l \in AssembledLens :
                  a_result' = [gen |-> 0, len |-> l, valid |-> TRUE,
                               pages |-> SavedPages(images)]
          ELSE a_result' = CorruptPdf(0)
    /\ apc' = "returned"
    /\ UNCHANGED <<image_bytes_list, images>>
    /\ UNCHANGED <<callerVars, compressVars, handlerVars>>

----------------------------------------------------------------------------
(* Direct callers of the two core functions *)

\* compress_pdf_to_target_size called with any target and any buffer.
CallCompress ==
    /\ UNCHANGED concVars
    /\ hpc = "idle"
    /\ \E t \in 1..MaxTargetKB :
          \E b \in PdfInputs(Around(t * KB)) : EnterCompress(b, t)
    /\ caller' = "compress"
    /\ hpc' = "in_compress"
    /\ UNCHANGED <<assembleVars, handlerVars>>

\* images_to_pdf called with any list of images.
CallAssemble ==
    /\ UNCHANGED concVars
    /\ hpc = "idle"
    /\ \E n \in 0..MaxImages : \E list \in ImageLists(n) : EnterAssemble(list)
    /\ caller' = "assemble"
    /\ hpc' = "in_assemble"
    /\ UNCHANGED <<compressVars, handlerVars>>

----------------------------------------------------------------------------
(* handle_photo and handle_pdf *)

\* document.file_size values a PDF message may report.
ReportedSizes == Around(HandlerTargetKB * KB) \cup Around(FileSizeCap)

\* Variant: the cap written ten times too high.
TooLargeTenfold(size) == size > FileSizeCap * 10

\* Line 124.
TooLarge(size) == size > FileSizeCap

\* The except clause of either handler is entered.
HandlerRaise == hpc' = "h_except"

\* A photo message arrives (filters.PHOTO: update.message.photo is not
\* empty, so the branch at lines 85-87 is not taken) and line 80 runs.
PhotoStart ==
    /\ UNCHANGED concVars
    /\ hpc = "idle"
    /\ caller' = "photo"
    /\ \/ status_msg' = "shown" /\ hpc' = "p_get"
       \/ status_msg' = status_msg /\ HandlerRaise
    /\ UNCHANGED <<compressVars, assembleVars, file_size, downloaded, sent,
                   err_replies>>

\* Lines 90-97: fetch the largest photo and call images_to_pdf on it.
PhotoDownload ==
    /\ UNCHANGED concVars
    /\ hpc = "p_get"
    /\ \/ /\ \E list \in ImageLists(1) : EnterAssemble(list)
          /\ downloaded' = TRUE
          /\ hpc' = "p_assemble"
       \/ /\ HandlerRaise
          /\ UNCHANGED <<assembleVars, downloaded>>
    /\ UNCHANGED <<caller, compressVars, file_size, status_msg, sent,
                   err_replies>>

\* Lines 97-100: images_to_pdf returned or raised; on return the compressor
\* is called with 240.
PhotoCompress ==
    /\ UNCHANGED concVars
    /\ hpc = "p_assemble"
    /\ \/ /\ apc = "returned"
          /\ EnterCompress(a_result, HandlerTargetKB)
          /\ hpc' = "h_compress"
       \/ /\ apc = "raised"
          /\ HandlerRaise
          /\ UNCHANGED compressVars
    /\ UNCHANGED <<caller, assembleVars, handlerVars>>

\* A PDF message arrives and line 120 runs.
PdfStart ==
    /\ UNCHANGED concVars
    /\ hpc = "idle"
    /\ caller' = "pdf"
    /\ \E s \in ReportedSizes : file_size' = s
    /\ \/ status_msg' = "shown" /\ hpc' = "d_check"
       \/ status_msg' = status_msg /\ HandlerRaise
    /\ UNCHANGED <<compressVars, assembleVars, downloaded, sent, err_replies>>

\* Lines 124-126: the size check and the rejection.
PdfReject ==
    /\ UNCHANGED concVars
    /\ hpc = "d_check"
    /\ TooLarge(file_size)
    /\ \/ status_msg' = "rejected" /\ hpc' = "done"
       \/ status_msg' = status_msg /\ HandlerRaise
    /\ UNCHANGED <<caller, compressVars, assembleVars, file_size, downloaded,
                   sent, err_replies>>

\* Lines 129-133: download the file and call the compressor with 240.
PdfDownload ==
    /\ UNCHANGED concVars
    /\ hpc = "d_check"
    /\ ~TooLarge(file_size)
    /\ \/ /\ \E b \in PdfInputs({file_size}) :
                EnterCompress(b, HandlerTargetKB)
          /\ downloaded' = TRUE
          /\ hpc' = "h_compress"
       \/ /\ HandlerRaise
          /\ UNCHANGED <<compressVars, downloaded>>
    /\ UNCHANGED <<caller, assembleVars, file_size, status_msg, sent,
                   err_replies>>

\* Lines 102 / 135: the compressor returned; edit the status message.
StatusReady ==
    /\ UNCHANGED concVars
    /\ hpc = "h_compress"
    /\ pc = "returned"
    /\ \/ status_msg' = "ready" /\ hpc' = "h_send"
       \/ status_msg' = status_msg /\ HandlerRaise
    /\ UNCHANGED <<caller, compressVars, assembleVars, file_size, downloaded,
                   sent, err_replies>>

\* Lines 105-109 / 138-142: reply_document with the compressor's result.
SendDocument ==
    /\ UNCHANGED concVars
    /\ hpc = "h_send"
    /\ \/ sent' = Append(sent, result) /\ hpc' = "h_delete"
       \/ sent' = sent /\ HandlerRaise
    /\ UNCHANGED <<caller, compressVars, assembleVars, file_size, downloaded,
                   status_msg, err_replies>>

\* Lines 111 / 144: delete the status message.
DeleteStatus ==
    /\ UNCHANGED concVars
    /\ hpc = "h_delete"
    /\ \/ status_msg' = "deleted" /\ hpc' = "done"
       \/ status_msg' = status_msg /\ HandlerRaise
    /\ UNCHANGED <<caller, compressVars, assembleVars, file_size, downloaded,
                   sent, err_replies>>

\* Lines 113-115 / 146-148: log and send the error reply.
HandlerExcept ==
    /\ UNCHANGED concVars
    /\ hpc = "h_except"
    /\ err_replies' = err_replies + 1
    /\ hpc' = "done"
    /\ UNCHANGED <<caller, compressVars, assembleVars, file_size, downloaded,
                   status_msg, sent>>

----------------------------------------------------------------------------
(* The process *)

\* No invocation is in flight.
ConcIdle ==
    /\ c_pc = [r \in 1..MaxReqs |-> "idle"]
    /\ c_orig = [r \in 1..MaxReqs |-> NoBytes]
    /\ c_pdf_bytes = [r \in 1..MaxReqs |-> NoBytes]
    /\ c_size = [r \in 1..MaxReqs |-> NoSize]
    /\ c_quality = [r \in 1..MaxReqs |-> 0]
    /\ c_doc = [r \in 1..MaxReqs |-> NoDoc]
    /\ c_passes = [r \in 1..MaxReqs |-> 0]
    /\ c_outcomes = [r \in 1..MaxReqs |-> <<>>]
    /\ c_result = [r \in 1..MaxReqs |-> NoBytes]

Init ==
    /\ ConcIdle
    /\ caller = "none"
    /\ hpc = "idle"
    /\ pc = "idle"
    /\ orig = NoBytes
    /\ pdf_bytes = NoBytes
    /\ target_kb = 0
    /\ current_size = NoSize
    /\ quality = 0
    /\ doc = NoDoc
    /\ new_doc = <<>>
    /\ page_num = 0
    /\ passes = 0
    /\ cands = <<>>
    /\ ladder = <<>>
    /\ raised = FALSE
    /\ open_handles = {}
    /\ opened_total = 0
    /\ result = NoBytes
    /\ image_bytes_list = <<>>
    /\ images = <<>>
    /\ a_result = NoBytes
    /\ apc = "idle"
    /\ file_size = 0
    /\ downloaded = FALSE
    /\ status_msg = "none"
    /\ sent = <<>>
    /\ err_replies = 0

\* The request in flight has run to its end.
Finished ==
    \/ caller = "compress" /\ pc = "returned"
    \/ caller = "assemble" /\ apc \in {"returned", "raised"}
    \/ caller \in {"photo", "pdf"} /\ hpc = "done"

\* The process goes on to the next request; no state of a request outlives
\* it.
NextRequest ==
    /\ UNCHANGED concVars
    /\ Finished
    /\ caller' = "none"
    /\ hpc' = "idle"
    /\ pc' = "idle"
    /\ orig' = NoBytes
    /\ pdf_bytes' = NoBytes
    /\ target_kb' = 0
    /\ current_size' = NoSize
    /\ quality' = 0
    /\ doc' = NoDoc
    /\ new_doc' = <<>>
    /\ page_num' = 0
    /\ passes' = 0
    /\ cands' = <<>>
    /\ ladder' = <<>>
    /\ raised' = FALSE
    /\ open_handles' = {}
    /\ opened_total' = 0
    /\ result' = NoBytes
    /\ image_bytes_list' = <<>>
    /\ images' = <<>>
    /\ a_result' = NoBytes
    /\ apc' = "idle"
    /\ file_size' = 0
    /\ downloaded' = FALSE
    /\ status_msg' = "none"
    /\ sent' = <<>>
    /\ err_replies' = 0

Next ==
    \/ CallCompress
    \/ CallAssemble
    \/ PhotoStart
    \/ PhotoDownload
    \/ PhotoCompress
    \/ PdfStart
    \/ PdfReject
    \/ PdfDownload
    \/ StatusReady
    \/ SendDocument
    \/ DeleteStatus
    \/ HandlerExcept
    \/ OpenImage
    \/ SaveImages
    \/ CheckSize
    \/ OpenSource
    \/ LoopTest
    \/ RebuildPage
    \/ SavePass
    \/ Reopen
    \/ Finish
    \/ Except
    \/ NextRequest

Spec == Init /\ [][Next]_vars

----------------------------------------------------------------------------
(* Several invocations of compress_pdf_to_target_size in flight together,  *)
(* as when handlers for several updates are interleaved.  Every invocation *)
(* has its own frame, so its parameters and locals are indexed by the      *)
(* invocation; a rebuild pass is one step, and the steps of different      *)
(* invocations interleave in any order.  What the library gives an         *)
(* invocation in each pass (a serialized length, or an exception) is       *)
(* recorded in c_outcomes.                                                 *)

Reqs == 1..MaxReqs

\* The library raised in the pass.
PassRaised == 0 - 1

\* Lengths of the buffers and candidates: at the target and over it.
ConcLens == {HandlerTargetKB * KB, HandlerTargetKB * KB + 1}

ConcInputs ==
    {ValidPdf(l, <<<<3, 4>>>>) : l \in ConcLens}
        \cup {CorruptPdf(HandlerTargetKB * KB + 1)}

\* Variant: quality kept in one attribute of the bot object.
QualityCellOnSelf(r) == 1

\* Where invocation r keeps quality: a local of its own frame (line 185).
QualityCell(r) == r

\* Lines 192-199 over all pages of the working document.
RasterizeAll(pages, q) == [i \in 1..Len(pages) |-> Rasterize(pages[i], q)]

\* A handler calls the compressor with 240 (lines 100, 133).
ConcCall(r) ==
    /\ c_pc[r] = "idle"
    /\ \E b \in ConcInputs :
          /\ c_orig' = [c_orig EXCEPT ![r] = b]
          /\ c_pdf_bytes' = [c_pdf_bytes EXCEPT ![r] = b]
    /\ c_pc' = [c_pc EXCEPT ![r] = "check"]
    /\ UNCHANGED <<c_size, c_quality, c_doc, c_passes, c_outcomes, c_result>>
    /\ UNCHANGED seqVars

\* Lines 176-185: the size test, then fitz.open and quality = 80; a buffer
\* that does not open goes to the except clause (line 223).
ConcCheck(r) ==
    /\ c_pc[r] = "check"
    /\ LET size == SizeKB(c_pdf_bytes[r].len) IN
       /\ c_size' = [c_size EXCEPT ![r] = size]
       /\ IF ~OverTarget(size, HandlerTargetKB)
             THEN /\ c_result' = [c_result EXCEPT ![r] = c_pdf_bytes[r]]
                  /\ c_pc' = [c_pc EXCEPT ![r] = "returned"]
                  /\ UNCHANGED <<c_quality, c_doc>>
             ELSE IF c_pdf_bytes[r].valid
                     THEN /\ c_doc' = [c_doc EXCEPT ![r] = c_pdf_bytes[r]]
                          /\ c_quality' = [c_quality EXCEPT
                                              ![QualityCell(r)] = InitialQuality]
                          /\ c_pc' = [c_pc EXCEPT ![r] = "loop"]
                          /\ UNCHANGED c_result
                     ELSE /\ c_result' = [c_result EXCEPT ![r] =
                                  ExceptValue(c_pdf_bytes[r], c_orig[r])]
                          /\ c_pc' = [c_pc EXCEPT ![r] = "returned"]
                          /\ UNCHANGED <<c_quality, c_doc>>
    /\ UNCHANGED <<c_orig, c_pdf_bytes, c_passes, c_outcomes>>
    /\ UNCHANGED seqVars

\* Lines 187-214: one rebuild pass, or the exception it ends in (line 223).
ConcPass(r) ==
    /\ c_pc[r] = "loop"
    /\ LoopCondition(c_size[r], HandlerTargetKB, c_quality[QualityCell(r)])
    /\ \/ \E l \in ConcLens :
             LET q == c_quality[QualityCell(r)]
                 c == Candidate(c_passes[r] + 1, l, RasterizeAll(c_doc[r].pages, q))
                 size == SizeKB(c.len)
             IN /\ c_size' = [c_size EXCEPT ![r] = size]
                /\ c_quality' = [c_quality EXCEPT ![QualityCell(r)] =
                                    NextQuality(q, size, HandlerTargetKB)]
                /\ c_pdf_bytes' = [c_pdf_bytes EXCEPT ![r] = c]
                /\ c_doc' = [c_doc EXCEPT ![r] = ReopenSource(c, c_orig[r])]
                /\ c_passes' = [c_passes EXCEPT ![r] = @ + 1]
                /\ c_outcomes' = [c_outcomes EXCEPT ![r] = Append(@, l)]
                /\ UNCHANGED <<c_pc, c_result>>
       \/ /\ c_outcomes' = [c_outcomes EXCEPT ![r] = Append(@, PassRaised)]
          /\ c_result' = [c_result EXCEPT ![r] =
                             ExceptValue(c_pdf_bytes[r], c_orig[r])]
          /\ c_pc' = [c_pc EXCEPT ![r] = "returned"]
          /\ UNCHANGED <<c_size, c_quality, c_pdf_bytes, c_doc, c_passes>>
    /\ UNCHANGED c_orig
    /\ UNCHANGED seqVars

\* Lines 187 and 216-219: the loop condition is false; return.
ConcFinish(r) ==
    /\ c_pc[r] = "loop"
    /\ ~LoopCondition(c_size[r], HandlerTargetKB, c_quality[QualityCell(r)])
    /\ c_result' = [c_result EXCEPT ![r] = FinalValue(c_pdf_bytes[r], c_orig[r])]
    /\ c_doc' = [c_doc EXCEPT ![r] = NoDoc]
    /\ c_pc' = [c_pc EXCEPT ![r] = "returned"]
    /\ UNCHANGED <<c_orig, c_pdf_bytes, c_size, c_quality, c_passes, c_outcomes>>
    /\ UNCHANGED seqVars

ConcNext ==
    \E r \in Reqs :
        \/ ConcCall(r)
        \/ ConcCheck(r)
        \/ ConcPass(r)
        \/ ConcFinish(r)

SpecConc == Init /\ [][ConcNext]_vars

----------------------------------------------------------------------------
(* Properties of compress_pdf_to_target_size *)

\* The candidates of this invocation, as a set.
CandidateSet == {cands[k] : k \in 1..Len(cands)}

\* Candidate c measures over the target.
CandOver(c) == OverTarget(SizeKB(c.len), target_kb)

Returned == pc = "returned"

\* C1: whenever a step of the compressor raises, in the first pass or in a
\* later one, the value returned is the buffer the caller passed in, never
\* an intermediate candidate.
C1_ErrorReturnsOriginal == (Returned /\ raised) => result = orig

\* C2: the compressor never raises to its caller: every invocation ends by
\* returning, and the value returned is the caller's buffer or a candidate
\* that a completed rebuild pass serialized in full (a valid document with
\* one page per page of the input).
C2_ReturnsOriginalOrCandidate ==
    /\ pc \in {"idle", "check", "open", "loop", "rebuild", "reopen", "final",
               "except", "returned"}
    /\ Returned =>
          \/ result = orig
          \/ /\ result \in CandidateSet
             /\ result.valid
             /\ Len(result.pages) = Len(orig.pages)

\* C2 witness: a later pass raised and a serialized candidate was returned.
C2_Witness ==
    /\ Returned
    /\ raised
    /\ passes >= 2
    /\ result \in CandidateSet
    /\ result # orig

\* C3: an input of at most target_kb * 1024 bytes, the exact length
\* target_kb * 1024 included, is returned as it is, with no rebuild pass and
\* no document opened.
C3_NoOpAtOrUnderTarget ==
    (Returned /\ orig.len <= target_kb * KB) =>
        /\ result = orig
        /\ passes = 0
        /\ opened_total = 0
        /\ open_handles = {}
        /\ cands = <<>>
        /\ ~raised

\* C3 witness: an input of exactly target_kb * 1024 bytes was returned.
C3_Witness ==
    /\ Returned
    /\ orig.len = target_kb * KB
    /\ orig.valid
    /\ result = orig

\* C4: an invocation runs at most 4 rebuild passes, whatever the input size
\* and whatever sizes the candidates have; after the fourth the loop
\* condition is false.
C4_AtMostFourPasses ==
    /\ passes <= 4
    /\ Len(cands) <= passes
    /\ (pc = "loop" /\ passes = 4) =>
           ~LoopCondition(current_size, target_kb, quality)

\* C4 witness: four passes ran, no candidate reached the target, and the
\* invocation returned.
C4_Witness ==
    /\ Returned
    /\ passes = 4
    /\ Len(cands) = 4
    /\ \A k \in 1..4 : CandOver(cands[k])

\* C5: once a pass produces a candidate at or under the target no further
\* pass is started and that candidate is what is returned; so a result
\* returned after fewer than 4 error-free passes on an over-target input is
\* at or under the target.
C5_StopAtFirstCandidateUnderTarget ==
    /\ \A k \in 1..Len(cands) :
          ~CandOver(cands[k]) =>
              /\ k = Len(cands)
              /\ passes = k
              /\ Returned => result = cands[k]
    /\ (Returned /\ ~raised /\ passes >= 1 /\ passes < 4) =>
           /\ result.len <= target_kb * KB
           /\ result = cands[passes]

\* C5 witness: the second pass met the target and its candidate was
\* returned.
C5_Witness ==
    /\ Returned
    /\ ~raised
    /\ passes = 2
    /\ CandOver(cands[1])
    /\ ~CandOver(cands[2])
    /\ result = cands[2]

\* C6: when the passes ran without error down to the quality floor and every
\* candidate is over the target, the value returned is the last candidate,
\* the one built at quality 20, not the input and not an earlier candidate.
C6_BestEffortReturnsLastCandidate ==
    (Returned /\ ~raised /\ passes >= 1 /\ \A k \in 1..Len(cands) : CandOver(cands[k])) =>
        /\ Len(cands) = passes
        /\ result = cands[Len(cands)]
        /\ result.gen = passes
        /\ ladder[passes] = QualityFloor
        /\ result # orig
        /\ \A k \in 1..(Len(cands) - 1) : result # cands[k]

\* C6 witness: four error-free passes, all over the target, returned.
C6_Witness ==
    /\ Returned
    /\ ~raised
    /\ Len(cands) = 4
    /\ CandOver(result)
    /\ result = cands[4]

\* C7: across the passes of one invocation each candidate is no longer than
\* the candidate of the pass before it.
C7_CandidateSizesNonIncreasing ==
    \A k \in 2..Len(cands) : cands[k].len <= cands[k - 1].len

----------------------------------------------------------------------------
(* Properties of the handlers *)

\* C8: every document the bot sends is under 240KB (taken here as at most
\* 240 * 1024 bytes, the bound the compressor itself tests), whatever the
\* input and whatever the outcome of the compressor.
C8_SentDocumentsUnder240KB ==
    \A i \in 1..Len(sent) : sent[i].len <= HandlerTargetKB * KB

\* The compressor has been called for the request in flight.
CompressorCalled == pc # "idle"

\* The rejection of a PDF message over the cap: nothing downloaded, the
\* compressor not called, no document sent.
RejectedUntouched == ~downloaded /\ ~CompressorCalled /\ sent = <<>>

\* C9 as stated: on both handlers' paths the compressor's input is at most
\* 10 * 1024 * 1024 bytes, and a PDF whose reported size exceeds the cap is
\* rejected with no download, no compression and no document sent.
C9_CapOnEveryPath ==
    /\ (caller \in {"photo", "pdf"} /\ CompressorCalled) =>
           orig.len <= FileSizeCap
    /\ (caller = "pdf" /\ TooLarge(file_size)) => RejectedUntouched

\* C9 amended: handle_pdf never calls the compressor for a document whose
\* reported size exceeds 10 * 1024 * 1024, and rejects such a document with
\* no download, no compression and no document sent; handle_photo makes no
\* size check.
C9_CapEnforcedByHandlePdf ==
    /\ (caller = "pdf" /\ CompressorCalled) =>
           /\ file_size <= FileSizeCap
           /\ orig.len <= FileSizeCap
    /\ (caller = "pdf" /\ file_size > FileSizeCap) =>
           /\ RejectedUntouched
           /\ hpc \in {"idle", "d_check", "h_except", "done"}

\* C9 witness: a PDF message over the cap was rejected.
C9_Witness ==
    /\ caller = "pdf"
    /\ file_size > FileSizeCap
    /\ hpc = "done"
    /\ status_msg = "rejected"
    /\ RejectedUntouched

----------------------------------------------------------------------------
(* Properties of images_to_pdf *)

\* C10: for n > 0 decodable images the PDF has exactly n pages and page i
\* hosts image i at its own size: none dropped, duplicated or reordered.
C10_OnePagePerImageInOrder ==
    (apc = "returned" /\ Len(image_bytes_list) > 0) =>
        /\ Len(a_result.pages) = Len(image_bytes_list)
        /\ \A i \in 1..Len(a_result.pages) :
              /\ a_result.pages[i].img = image_bytes_list[i].id
              /\ a_result.pages[i].geom = image_bytes_list[i].geom

\* C10 witness: a list of two or more images of different sizes was
\* assembled.
C10_Witness ==
    /\ apc = "returned"
    /\ Len(image_bytes_list) >= 2
    /\ image_bytes_list[1].geom # image_bytes_list[2].geom
    /\ Len(a_result.pages) = Len(image_bytes_list)

\* The input list holds an image PIL cannot decode.
HasUndecodable == \E i \in 1..Len(image_bytes_list) : ~image_bytes_list[i].ok

\* C11: when an image of the list, at any position, cannot be decoded,
\* images_to_pdf ends by raising and returns no bytes, not a PDF of the
\* images decoded before it; in handle_photo no document is then sent.
C11_UndecodableImageAborts ==
    /\ (HasUndecodable /\ apc \in {"returned", "raised"}) =>
           /\ apc = "raised"
           /\ a_result = NoBytes
    /\ (HasUndecodable /\ apc = "loop") =>
           \A i \in 1..Len(images) : image_bytes_list[i].ok
    /\ (caller = "photo" /\ HasUndecodable) =>
           /\ sent = <<>>
           /\ ~CompressorCalled

\* C11 witness: the second image of a list could not be decoded, after the
\* first had been; the call raised.
C11_Witness ==
    /\ apc = "raised"
    /\ Len(image_bytes_list) >= 2
    /\ image_bytes_list[1].ok
    /\ ~image_bytes_list[2].ok
    /\ Len(images) = 1
    /\ a_result = NoBytes

\* C12: every image embedded in the PDF is in RGB mode: an input in another
\* mode was converted before it was embedded, an input in RGB was not.
C12_EmbeddedImagesAreRGB ==
    /\ \A i \in 1..Len(images) :
          /\ images[i].mode = "RGB"
          /\ images[i].converted <=> image_bytes_list[i].mode # "RGB"
    /\ apc = "returned" =>
          \A i \in 1..Len(a_result.pages) : a_result.pages[i].mode = "RGB"

\* C12 witness: a palette image and an RGB image were assembled.
C12_Witness ==
    /\ apc = "returned"
    /\ Len(a_result.pages) >= 2
    /\ image_bytes_list[1].mode = "P"
    /\ image_bytes_list[2].mode = "RGB"
    /\ images[1].converted
    /\ ~images[2].converted

----------------------------------------------------------------------------
(* Properties of the rebuild passes *)

\* The number of candidates so far that measured over the target.
OverCount == Cardinality({k \in 1..Len(cands) : CandOver(cands[k])})

\* The document pass k is built from: the input, then the candidate of the
\* pass before.
WorkingSource(k) == IF k = 1 THEN orig ELSE cands[k - 1]

\* C13: the quality of rebuild pass k is 80 - 20 * (k - 1), that is 80, 60,
\* 40, 20: it goes down by exactly 20 after each pass whose candidate is
\* still over the target and is not changed otherwise; the rasterization
\* scale is 0.8 in every pass.
C13_QualityLadderAndFixedScale ==
    /\ Len(ladder) = passes
    /\ \A k \in 1..Len(ladder) : ladder[k] = 80 - 20 * (k - 1)
    /\ opened_total >= 1 => quality = 80 - 20 * OverCount
    /\ \A k \in 1..Len(cands) : \A i \in 1..Len(cands[k].pages) :
          cands[k].pages[i].scale[1] * 10 = 8 * cands[k].pages[i].scale[2]
    /\ \A i \in 1..Len(new_doc) : new_doc[i].scale[1] * 10 = 8 * new_doc[i].scale[2]

\* C13 witness: four passes ran, at 80, 60, 40 and 20, and the last
\* candidate met the target.
C13_Witness ==
    /\ Returned
    /\ ladder = <<80, 60, 40, 20>>
    /\ Len(cands) = 4
    /\ ~CandOver(cands[4])
    /\ quality = 20

\* C14: in each pass the quality argument handed to the JPEG encoder for
\* every page equals the loop's quality on the 0-100 scale (80, 60, 40, 20).
C14_EncoderGetsLadderQuality ==
    /\ \A k \in 1..Len(cands) : \A i \in 1..Len(cands[k].pages) :
          cands[k].pages[i].q[1] = ladder[k] * cands[k].pages[i].q[2]
    /\ \A i \in 1..Len(new_doc) : new_doc[i].q[1] = ladder[passes] * new_doc[i].q[2]

\* C15: when an invocation has returned, by the normal exit or by the except
\* clause, every document handle it opened has been closed.
C15_HandlesClosedOnReturn == Returned => open_handles = {}

\* Documents a and b have the same pages in the same order, page for page of
\* the same width and height.
SameLayout(a, b) ==
    /\ Len(a.pages) = Len(b.pages)
    /\ \A i \in 1..Len(a.pages) :
          /\ a.pages[i].img = b.pages[i].img
          /\ a.pages[i].geom = b.pages[i].geom

\* C16: every candidate has the pages of the document it was built from, in
\* the same order and page for page of the same width and height; so the
\* document returned has the page count and page geometry of the input.
C16_PagesAndGeometryPreserved ==
    /\ \A k \in 1..Len(cands) :
          /\ SameLayout(cands[k], WorkingSource(k))
          /\ SameLayout(cands[k], orig)
    /\ \A i \in 1..Len(new_doc) :
          /\ new_doc[i].img = doc.pages[i].img
          /\ new_doc[i].geom = doc.pages[i].geom
    /\ Returned => SameLayout(result, orig)

\* C16 witness: a two-page document with pages of different sizes came back
\* as the candidate of the second pass.
C16_Witness ==
    /\ Returned
    /\ Len(cands) = 2
    /\ result = cands[2]
    /\ Len(orig.pages) = 2
    /\ orig.pages[1].geom # orig.pages[2].geom

\* C17: after a pass whose candidate is still over the target, the working
\* document of the next pass is that candidate: pass k + 1 rasterizes the
\* output of pass k, not the input, and the working document before it is
\* no longer held.
C17_NextPassWorksOnCandidate ==
    /\ pc = "rebuild" => doc = WorkingSource(passes)
    /\ (pc = "loop" /\ passes >= 1) => doc = cands[passes]
    /\ \A k \in 1..Len(cands) : \A i \in 1..Len(cands[k].pages) :
          cands[k].pages[i].depth = k
    /\ open_handles \subseteq {"doc", "new_doc"}

\* C17 witness: the second pass is rasterizing the candidate of the first.
C17_Witness ==
    /\ pc = "rebuild"
    /\ passes = 2
    /\ page_num >= 1
    /\ doc = cands[1]
    /\ doc # orig
    /\ new_doc[1].depth = 2

\* C19: the bytes returned are never longer than the bytes passed in.
C19_ResultNotLargerThanInput == Returned => result.len <= orig.len

\* C20: for a handled message the user gets one result document or an error
\* reply, never both: after reply_document succeeded no later failure sends
\* an error reply, and an error reply means no document was sent.
C20_DocumentOrErrorNeverBoth ==
    /\ Len(sent) <= 1
    /\ ~(Len(sent) >= 1 /\ err_replies >= 1)

----------------------------------------------------------------------------
(* Properties of invocations in flight together *)

\* A value no invocation returns: the run alone does not end where the
\* interleaved one did.
NoSuchRun == [gen |-> 0 - 2, len |-> 0, valid |-> FALSE, pages |-> <<>>]

RECURSIVE AloneFrom(_, _, _, _, _)
\* The loop of lines 187-219 run alone from working buffer b, given the
\* outcomes outs of its passes.
AloneFrom(b, size, q, k, outs) ==
    IF LoopCondition(size, HandlerTargetKB, q)
       THEN IF outs = <<>>
               THEN NoSuchRun
               ELSE IF Head(outs) = PassRaised
                       THEN IF Len(outs) = 1 THEN b ELSE NoSuchRun
                       ELSE LET c == Candidate(k + 1, Head(outs),
                                               RasterizeAll(b.pages, q))
                            IN AloneFrom(c, SizeKB(c.len),
                                         NextQuality(q, SizeKB(c.len), HandlerTargetKB),
                                         k + 1, Tail(outs))
       ELSE IF outs = <<>> THEN b ELSE NoSuchRun

\* What the compressor returns for buffer b when it runs alone and its
\* passes have the outcomes outs.
Alone(b, outs) ==
    IF ~OverTarget(SizeKB(b.len), HandlerTargetKB) \/ ~b.valid
       THEN IF outs = <<>> THEN b ELSE NoSuchRun
       ELSE AloneFrom(b, SizeKB(b.len), InitialQuality, 0, outs)

====
